---- MODULE Spec2Model ----
(***************************************************************************)
(* Model of the subtitle segmentation engine of segmentation/segment.py:   *)
(* scan_for_pauses, FragmenterComponent.fragmenter, divide_span,           *)
(* get_time_span and iterate_document; and of the transcription service of *)
(* service/service.py: service_loop and process_file.                      *)
(*                                                                         *)
(* Times are integers in milliseconds (0.5 s = 500, 0.001 s = 1).  Tokens  *)
(* are numbered from 0 as in the source (Token.i); doc[i + 1] is token i.  *)
(***************************************************************************)
EXTENDS Integers, Sequences, FiniteSets, TLC

VARIABLES
    doc,                  \* the tokens of the Doc, in order
    sents,                \* doc.sents: the index of each sentence's first token
    timing,               \* the timing dict, as its items in insertion order
    width,                \* args.width
    punctuation_only,     \* args.punctuation_only
    pauses,               \* the list returned by scan_for_pauses
    ann,                  \* token index -> the two token extensions
    pc,                   \* position of the pipeline
    run,                  \* 1 in the first run over the document, 2 in the second
    sent,                 \* number of sentences whose divide_span call has returned
    i,                    \* divide_span: loop index, relative to the span
    current_chunk_start,  \* divide_span
    last_good_break,      \* divide_span (None is -1)
    last_break_score,     \* divide_span (scaled by max_width)
    resume,               \* where the generator continues after a yield
    chunk,                \* the chunk last yielded, as <<first, end>> token indices
    chunks,               \* the chunks yielded so far by the present divide_span call
    how,                  \* how `chunk` was yielded: short, candidate, forced or final
    since,                \* divide_span: the first token scanned after the last yield
    span_time,            \* what get_time_span returned for `chunk`
    last_end,             \* iterate_document
    cues,                 \* the cues yielded by iterate_document in this run
    cues1,                \* the cues of the first run
    input_dir,            \* the names of the files in INPUT_DIR
    st_mtime,             \* file of the input directory -> its modification time
    fault,                \* file of the input directory -> the step that raises for it
    processing_dir,       \* the names of the files in PROCESSING_DIR
    output_dir,           \* the names of the files in OUTPUT_DIR
    archive_dir,          \* the names of the files in ARCHIVE_DIR
    spc,                  \* position of the service
    input_file,           \* process_file: its argument
    audio_file,           \* process_file
    raised                \* the step of the last process_file call that raised, or ""

segmentation == <<doc, sents, timing, width, punctuation_only, pauses, ann, pc, run, sent,
                  i, current_chunk_start, since, last_good_break, last_break_score,
                  resume, chunk, chunks, how, span_time, last_end, cues, cues1>>

service == <<input_dir, st_mtime, fault, processing_dir, output_dir, archive_dir, spc,
             input_file, audio_file, raised>>

vars == <<segmentation, service>>

inputs == <<doc, sents, timing, width, punctuation_only>>

----------------------------------------------------------------------------
(* Bounds of the model. *)

\* longest document of the family with free token kinds
MaxTokens == 3

\* longest document of the family with free timing tables
MaxTimedTokens == 3

\* largest args.width of the family with free token kinds
MaxWidth == 5

----------------------------------------------------------------------------
(* Constants of the program. *)

\* segment.py:121, 0.5 s
PauseGap == 500

\* segment.py:206 and 208, 0.001 s
SmallGap == 1

\* segment.py:151
BaseScore == 10

\* None, for an index
None == -1

\* (None, None), for a time span
NoSpan == <<>>

StrongPunct == {",", ".", ":", ";"}

PunctPattern == {",", ":", ";"}

ConjPos == {"CCONJ", "SCONJ"}

ClauseDep == {"advcl", "relcl", "acl", "acl:relcl"}

----------------------------------------------------------------------------
(* Tokens. text is the literal ("w" stands for any word), len its length,  *)
(* ws the length of the trailing whitespace (Token.whitespace_).           *)

Word   == [text |-> "w", len |-> 2, ws |-> 1, is_punct |-> FALSE, pos |-> "NOUN",  dep |-> "nsubj"]
Glued  == [text |-> "w", len |-> 3, ws |-> 0, is_punct |-> FALSE, pos |-> "NOUN",  dep |-> "nsubj"]
Comma  == [text |-> ",", len |-> 1, ws |-> 1, is_punct |-> TRUE,  pos |-> "PUNCT", dep |-> "punct"]
Conj   == [text |-> "w", len |-> 3, ws |-> 1, is_punct |-> FALSE, pos |-> "CCONJ", dep |-> "cc"]
Clause == [text |-> "w", len |-> 2, ws |-> 1, is_punct |-> FALSE, pos |-> "VERB",  dep |-> "advcl"]

Range(s) == {s[k] : k \in DOMAIN s}

NumTokens == Len(doc)

Tokens == 0 .. NumTokens - 1

Tok(t) == doc[t + 1]

\* Token.idx: the character offset of token t in the text of the document
RECURSIVE OffsetIn(_, _)
OffsetIn(d, t) == IF t = 0 THEN 0 ELSE OffsetIn(d, t - 1) + d[t].len + d[t].ws

idx(t) == OffsetIn(doc, t)

\* len(doc[a:b].text): the tokens with their whitespace, less the trailing one
RECURSIVE TextLen(_, _)
TextLen(a, b) ==
    IF a >= b THEN 0
    ELSE IF b = a + 1 THEN Tok(a).len
    ELSE Tok(a).len + Tok(a).ws + TextLen(a + 1, b)

\* sentence s (from 0) is the token range [SentStart(s), SentEnd(s))
NumSents == Len(sents)

SentStart(s) == sents[s + 1]

SentEnd(s) == IF s + 1 < NumSents THEN sents[s + 2] ELSE NumTokens

----------------------------------------------------------------------------
(* The timing dict.  An item is [off, start, end]: timing[off] = (start,    *)
(* end).  The offsets of the items are distinct.                           *)

InTable(off) == \E e \in Range(timing) : e.off = off

Lookup(off) == CHOOSE e \in Range(timing) : e.off = off

\* the items in insertion order, the sort left out
unsorted(items) == items

\* sorted(timing.items()): ascending in the offset
RECURSIVE sorted(_)
sorted(items) ==
    IF items = <<>> THEN <<>>
    ELSE LET k == CHOOSE k \in DOMAIN items :
                      \A j \in DOMAIN items : items[k].off <= items[j].off
             rest == [j \in 1 .. Len(items) - 1 |->
                          IF j < k THEN items[j] ELSE items[j + 1]]
         IN  <<items[k]>> \o sorted(rest)

\* the loop of scan_for_pauses, from position k of the sorted items
RECURSIVE PausesFrom(_, _)
PausesFrom(st, k) ==
    IF k >= Len(st) THEN <<>>
    ELSE LET gap == st[k + 1].start - st[k].end
         IN  (IF gap > PauseGap THEN <<st[k].off>> ELSE <<>>) \o PausesFrom(st, k + 1)

scan_for_pauses(items) == PausesFrom(sorted(items), 1)

----------------------------------------------------------------------------
(* FragmenterComponent.fragmenter.  A match is [rule, start]; the Matcher  *)
(* reports the matches token by token and, at one token, in the order the  *)
(* patterns were added: punct, conj, clause.                               *)

Unmarked == [can |-> FALSE, reason |-> ""]

Mark(r) == [can |-> TRUE, reason |-> r]

MatchesAt(t) ==
    (IF Tok(t).is_punct /\ Tok(t).text \in PunctPattern
        THEN <<[rule |-> "punct", start |-> t]>> ELSE <<>>)
    \o (IF Tok(t).pos \in ConjPos THEN <<[rule |-> "conj", start |-> t]>> ELSE <<>>)
    \o (IF Tok(t).dep \in ClauseDep THEN <<[rule |-> "clause", start |-> t]>> ELSE <<>>)

RECURSIVE MatchesFrom(_)
MatchesFrom(t) == IF t >= NumTokens THEN <<>> ELSE MatchesAt(t) \o MatchesFrom(t + 1)

matcher == MatchesFrom(0)

ApplyMatch(a, m) ==
    IF m.rule = "punct" THEN [a EXCEPT ![m.start] = Mark("punctuation")]
    ELSE IF m.rule = "conj"
        THEN IF m.start > 0 THEN [a EXCEPT ![m.start - 1] = Mark("conjunction")] ELSE a
    ELSE IF m.start > 0 THEN [a EXCEPT ![m.start - 1] = Mark("clause")] ELSE a

RECURSIVE ApplyMatches(_, _, _)
ApplyMatches(a, ms, k) ==
    IF k > Len(ms) THEN a ELSE ApplyMatches(ApplyMatch(a, ms[k]), ms, k + 1)

\* the loop over the tokens that handles the verbal pauses; P is self.pauses
MarkPauses(a, P) == [t \in DOMAIN a |-> IF t \in P THEN Mark("verbal pause") ELSE a[t]]

\* the pauses handled before the matches instead of after them
fragmenter_pauses_first(a, P) == ApplyMatches(MarkPauses(a, P), matcher, 1)

fragmenter(a, P) == MarkPauses(ApplyMatches(a, matcher, 1), P)

----------------------------------------------------------------------------
(* get_time_span, for the span of the tokens a .. b - 1.                    *)

\* the walk goes on only over untimed punctuation
RECURSIVE WalkBackBoth(_)
WalkBackBoth(t) ==
    IF (Tok(t).is_punct /\ ~InTable(idx(t))) /\ t > 0 THEN WalkBackBoth(t - 1) ELSE t

\* the two while loops: back from token t to a timed token that is no
\* punctuation, or to token 0
RECURSIVE WalkBack(_)
WalkBack(t) ==
    IF (Tok(t).is_punct \/ ~InTable(idx(t))) /\ t > 0 THEN WalkBack(t - 1) ELSE t

\* the end time taken from the entry of the start token
get_time_span_end_of_start(a, b) ==
    IF a >= b THEN NoSpan
    ELSE LET start_index == idx(WalkBack(a))
             end_index == idx(WalkBack(b - 1))
         IN  IF ~InTable(start_index) \/ ~InTable(end_index) THEN NoSpan
             ELSE <<Lookup(start_index).start, Lookup(start_index).end>>

get_time_span(a, b) ==
    IF a >= b THEN NoSpan
    ELSE LET start_index == idx(WalkBack(a))
             end_index == idx(WalkBack(b - 1))
         IN  IF ~InTable(start_index) \/ ~InTable(end_index) THEN NoSpan
             ELSE <<Lookup(start_index).start, Lookup(end_index).end>>

----------------------------------------------------------------------------
(* divide_span, for sentence `sent`.  The indices i, current_chunk_start   *)
(* and last_good_break are relative to the span, as in the source.         *)

max_width == width

min_width == max_width \div 3

SpanStart == SentStart(sent)

SpanEnd == SentEnd(sent)

SpanLen == SpanEnd - SpanStart

Abs(x) == IF x < 0 THEN -x ELSE x

\* len(span[current_chunk_start:i+1].text)
current_length == TextLen(SpanStart + current_chunk_start, SpanStart + i + 1)

is_punctuation(t) == Tok(t).text \in StrongPunct \/ ann[t].reason = "punctuation"

\* the punctuation-only mode without its filter
SkippedNever(t) == FALSE

\* the `continue` of the punctuation-only mode
Skipped(t) == ann[t].can /\ punctuation_only /\ ~is_punctuation(t)

Bonus(t) ==
    IF Tok(t).text \in StrongPunct THEN 5
    ELSE IF ann[t].reason = "punctuation" THEN 3
    ELSE IF ~punctuation_only /\ ann[t].reason \in {"conjunction", "clause"} THEN 2
    ELSE 0

\* score, times max_width: 10 + bonus + 2 * (1 - |cur - w/2| / (w/2))
Score(t, cur) ==
    (BaseScore + Bonus(t)) * max_width + 2 * max_width - 2 * Abs(2 * cur - max_width)

Scored(t, cur) == ann[t].can /\ min_width <= cur /\ cur <= max_width

\* a candidate of equal score replaces the best one
BetterOrEqual(score, best) == score >= best

\* if score > last_break_score
Better(score, best) == score > best

\* the chunk after a break at the best candidate starts at the candidate
StartAtBreak(b) == b

\* current_chunk_start = last_good_break + 1
StartAfterBreak(b) == b + 1

\* the generator runs on into the loop after it has yielded a short span
ShortFallsThrough == "loop"

\* yield span; return
ShortResume == "return"

----------------------------------------------------------------------------
(* iterate_document.                                                       *)

\* last_end kept from an earlier run
stale_last_end == last_end

\* last_end = 0
first_last_end == 0

\* the minimal duration left out
repair_no_duration(sub_start, sub_end, le) ==
    LET s1 == IF sub_start < le THEN le + SmallGap ELSE sub_start
    IN  <<s1, sub_end>>

\* a start equal to last_end moved as well
repair_touching(sub_start, sub_end, le) ==
    LET s1 == IF sub_start <= le THEN le + SmallGap ELSE sub_start
        e1 == IF s1 >= sub_end THEN s1 + SmallGap ELSE sub_end
    IN  <<s1, e1>>

\* the adjustment of the start and the end of a cue, le being last_end
repair(sub_start, sub_end, le) ==
    LET s1 == IF sub_start < le THEN le + SmallGap ELSE sub_start
        e1 == IF s1 >= sub_end THEN s1 + SmallGap ELSE sub_end
    IN  <<s1, e1>>

----------------------------------------------------------------------------
(* The inputs.  Two families of documents: documents of any tokens whose   *)
(* words are timed one after the other, with at most one long gap; and     *)
(* documents of words and commas with any timing table.                    *)

TokenKinds == {Word, Glued, Comma, Conj, Clause}

RichDocs == UNION {[1 .. n -> TokenKinds] : n \in 1 .. MaxTokens}

TimedDocs == UNION {[1 .. n -> {Word, Comma}] : n \in 1 .. MaxTimedTokens}

\* the words of d timed in order, 0.9 s each and 0.1 s apart, with 1 s more
\* after token p
RECURSIVE Schedule(_, _, _)
Schedule(d, p, t) ==
    IF t >= Len(d) THEN <<>>
    ELSE LET st == 1000 * t + (IF p # None /\ t > p THEN 1000 ELSE 0)
         IN  (IF d[t + 1].is_punct THEN <<>>
              ELSE <<[off |-> OffsetIn(d, t), start |-> st, end |-> st + 900]>>)
             \o Schedule(d, p, t + 1)

TimeSpans == {<<2000, 2500>>, <<2400, 3000>>, <<3000, 3000>>, <<3501, 3900>>}

\* the table that gives token t the span assign[t] (none if NoSpan), filled
\* from the first token on
RECURSIVE Table(_, _, _)
Table(d, assign, t) ==
    IF t >= Len(d) THEN <<>>
    ELSE (IF assign[t] = NoSpan THEN <<>>
          ELSE <<[off |-> OffsetIn(d, t), start |-> assign[t][1], end |-> assign[t][2]]>>)
         \o Table(d, assign, t + 1)

Reverse(q) == [k \in 1 .. Len(q) |-> q[Len(q) + 1 - k]]

\* one sentence, or two
Splits(d) == {<<0>>} \cup {<<0, k>> : k \in 1 .. Len(d) - 1}

RichInputs ==
    \E d \in RichDocs, w \in 1 .. MaxWidth, po \in BOOLEAN :
        \E p \in {None} \cup (0 .. Len(d) - 2) :
            /\ doc = d
            /\ sents = <<0>>
            /\ timing = Schedule(d, p, 0)
            /\ width = w
            /\ punctuation_only = po

TimedInputs ==
    \E d \in TimedDocs :
        \E assign \in [0 .. Len(d) - 1 -> {NoSpan} \cup TimeSpans],
           ss \in Splits(d), backwards \in BOOLEAN :
            /\ doc = d
            /\ sents = ss
            /\ timing = IF backwards THEN Reverse(Table(d, assign, 0))
                                     ELSE Table(d, assign, 0)
            /\ width = 5
            /\ punctuation_only = FALSE

Init ==
    /\ RichInputs \/ TimedInputs
    /\ pauses = <<>>
    /\ ann = [t \in Tokens |-> Unmarked]
    /\ pc = "pauses"
    /\ run = 1
    /\ sent = 0
    /\ i = 0
    /\ current_chunk_start = 0
    /\ last_good_break = None
    /\ last_break_score = 0
    /\ resume = "return"
    /\ chunk = NoSpan
    /\ chunks = <<>>
    /\ how = ""
    /\ since = 0
    /\ span_time = NoSpan
    /\ last_end = 0
    /\ cues = <<>>
    /\ cues1 = <<>>
    /\ input_dir = {}
    /\ st_mtime = <<>>
    /\ fault = <<>>
    /\ processing_dir = {}
    /\ output_dir = {}
    /\ archive_dir = {}
    /\ spc = "poll"
    /\ input_file = NoSpan
    /\ audio_file = NoSpan
    /\ raised = ""

----------------------------------------------------------------------------
(* The steps of main: scan_for_pauses, nlp(wtext), write_srt.              *)

ScanForPauses ==
    /\ pc = "pauses"
    /\ pauses' = scan_for_pauses(timing)
    /\ pc' = "annotate"
    /\ UNCHANGED <<service, inputs, ann, run, sent, i, current_chunk_start, since, last_good_break,
                   last_break_score, resume, chunk, chunks, how, span_time, last_end,
                   cues, cues1>>

\* the fragmenter component runs on the Doc; self.pauses = set(verbal_pauses)
Annotate ==
    /\ pc = "annotate"
    /\ ann' = fragmenter(ann, Range(pauses))
    /\ pc' = "iterate"
    /\ UNCHANGED <<service, inputs, pauses, run, sent, i, current_chunk_start, since, last_good_break,
                   last_break_score, resume, chunk, chunks, how, span_time, last_end,
                   cues, cues1>>

\* iterate_document is entered
IterateDocument ==
    /\ pc = "iterate"
    /\ last_end' = first_last_end
    /\ cues' = <<>>
    /\ sent' = 0
    /\ pc' = IF NumSents > 0 THEN "call" ELSE "done"
    /\ UNCHANGED <<service, inputs, pauses, ann, run, i, current_chunk_start, since, last_good_break,
                   last_break_score, resume, chunk, chunks, how, span_time, cues1>>

\* the generator of the present sentence is exhausted
Return ==
    /\ sent' = sent + 1
    /\ pc' = IF sent + 1 < NumSents THEN "call" ELSE "done"

\* the generator yields the tokens a .. b - 1 and continues at `to`
Yield(a, b, to, kind) ==
    /\ chunk' = <<a, b>>
    /\ chunks' = Append(chunks, <<a, b>>)
    /\ how' = kind
    /\ resume' = to
    /\ pc' = "yield"
    /\ sent' = sent

\* divide_span is called on the next sentence: the short span, or the loop set up
DivideSpan ==
    /\ pc = "call"
    /\ i' = 0
    /\ current_chunk_start' = 0
    /\ last_good_break' = None
    /\ last_break_score' = 0
    /\ since' = 0
    /\ IF TextLen(SpanStart, SpanEnd) <= max_width
          THEN /\ chunk' = <<SpanStart, SpanEnd>>
               /\ chunks' = <<chunk'>>
               /\ how' = "short"
               /\ resume' = ShortResume
               /\ pc' = "yield"
          ELSE /\ chunks' = <<>>
               /\ pc' = "loop"
               /\ UNCHANGED <<chunk, resume, how>>
    /\ UNCHANGED <<service, inputs, pauses, ann, run, sent, span_time, last_end, cues, cues1>>

\* one turn of the loop over the tokens of the span
ScanToken ==
    /\ pc = "loop"
    /\ i < SpanLen
    /\ i' = i + 1
    /\ LET t == SpanStart + i
           cur == current_length
           better == Scored(t, cur) /\ Better(Score(t, cur), last_break_score)
           good == IF better THEN i ELSE last_good_break
           score == IF better THEN Score(t, cur) ELSE last_break_score
       IN  IF Skipped(t)
              THEN UNCHANGED <<current_chunk_start, since, last_good_break, last_break_score,
                               resume, chunk, chunks, how, pc, sent>>
           ELSE IF cur > max_width /\ good # None
              THEN /\ Yield(SpanStart + current_chunk_start, SpanStart + good + 1,
                            "loop", "candidate")
                   /\ current_chunk_start' = StartAfterBreak(good)
                   /\ since' = i + 1
                   /\ last_good_break' = None
                   /\ last_break_score' = 0
           ELSE IF 2 * cur > 3 * max_width
              THEN /\ IF i > current_chunk_start
                         THEN /\ Yield(SpanStart + current_chunk_start, SpanStart + i,
                                       "loop", "forced")
                              /\ current_chunk_start' = i
                         ELSE /\ Yield(SpanStart + current_chunk_start,
                                       SpanStart + current_chunk_start + 1, "loop", "forced")
                              /\ current_chunk_start' = current_chunk_start + 1
                   /\ since' = i + 1
                   /\ last_good_break' = None
                   /\ last_break_score' = 0
           ELSE /\ last_good_break' = good
                /\ last_break_score' = score
                /\ UNCHANGED <<current_chunk_start, since, resume, chunk, chunks, how, pc, sent>>
    /\ UNCHANGED <<service, inputs, pauses, ann, run, span_time, last_end, cues, cues1>>

\* after the loop: the remaining chunk
Remainder ==
    /\ pc = "loop"
    /\ i >= SpanLen
    /\ IF current_chunk_start < SpanLen
          THEN Yield(SpanStart + current_chunk_start, SpanEnd, "return", "final")
          ELSE Return /\ UNCHANGED <<chunk, chunks, how, resume>>
    /\ UNCHANGED <<service, inputs, pauses, ann, run, i, current_chunk_start, since, last_good_break,
                   last_break_score, span_time, last_end, cues, cues1>>

\* the body of the loop of iterate_document for the chunk yielded, then the
\* generator is resumed
ProcessChunk ==
    /\ pc = "yield"
    /\ LET t == get_time_span(chunk[1], chunk[2])
       IN  /\ span_time' = t
           /\ IF chunk[1] >= chunk[2] \/ t = NoSpan
                 THEN UNCHANGED <<last_end, cues>>
                 ELSE LET r == repair(t[1], t[2], last_end)
                      IN  /\ last_end' = r[2]
                          /\ cues' = Append(cues, [start |-> r[1], end |-> r[2],
                                                   text |-> chunk])
    /\ IF resume = "loop"
          THEN pc' = "loop" /\ sent' = sent
          ELSE Return
    /\ UNCHANGED <<service, inputs, pauses, ann, run, i, current_chunk_start, since, last_good_break,
                   last_break_score, resume, chunk, chunks, how, cues1>>

\* the pipeline is run once more on the same Doc, table and arguments
Rerun ==
    /\ pc = "done"
    /\ run = 1
    /\ run' = 2
    /\ cues1' = cues
    /\ pc' = "annotate"
    /\ UNCHANGED <<service, inputs, pauses, ann, sent, i, current_chunk_start, since, last_good_break,
                   last_break_score, resume, chunk, chunks, how, span_time, last_end, cues>>

Next ==
    \/ ScanForPauses
    \/ Annotate
    \/ IterateDocument
    \/ DivideSpan
    \/ ScanToken
    \/ Remainder
    \/ ProcessChunk
    \/ Rerun

Spec == Init /\ [][Next]_vars

----------------------------------------------------------------------------
(* The transcription service.  A file name is <<stem, suffix>> and a       *)
(* directory is the set of the names in it.  Every file of the input       *)
(* directory has its own modification time, and a step of process_file     *)
(* that raises for a file raises for it in every call.                     *)

\* most files in the input directory
MaxFiles == 2

Stems == {"a", "b"}

\* the suffixes service_loop globs for
Suffixes == {"mp3", "mp4"}

Names == Stems \X Suffixes

NoFile == <<>>

\* the calls of process_file, after the move into the processing directory,
\* that can raise
Steps == {"extract", "transcribe", "json", "segment", "shift",
          "archive_audio", "archive_json", "copy_vtt", "copy_adjusted"}

\* Path.with_suffix
with_suffix(p, s) == <<p[1], s>>

\* PROCESSING_DIR / input_file.name
proc_file == input_file

json_path == with_suffix(audio_file, "words.json")

\* the name of vtt_path, in OUTPUT_DIR and in ARCHIVE_DIR
vtt_path == with_suffix(audio_file, "vtt")

\* the name of adjusted_vtt_path
adjusted_vtt_path == <<audio_file[1], "_EndTimeAdjusted.vtt">>

\* sorted(..., key=st_mtime)[0]
oldest(files) == CHOOSE f \in files : \A g \in files : st_mtime[f] <= st_mtime[g]

Raises(step) == fault[input_file] = step

\* control passes to the except clause
Raise(step) ==
    /\ raised' = step
    /\ spc' = "except"

\* the input directory as the files in it, oldest first
InputQueues ==
    {q \in UNION {[1 .. n -> Names] : n \in 1 .. MaxFiles} :
        \A j, k \in DOMAIN q : j # k => q[j] # q[k]}

ServiceInit ==
    /\ \E q \in InputQueues :
        /\ input_dir = Range(q)
        /\ st_mtime = [f \in Range(q) |-> CHOOSE k \in DOMAIN q : q[k] = f]
        /\ fault \in [Range(q) -> Steps \cup {"none"}]
    /\ processing_dir = {}
    /\ output_dir = {}
    /\ archive_dir = {}
    /\ spc = "poll"
    /\ input_file = NoFile
    /\ audio_file = NoFile
    /\ raised = ""
    /\ doc = <<>>
    /\ sents = <<>>
    /\ timing = <<>>
    /\ width = 1
    /\ punctuation_only = FALSE
    /\ pauses = <<>>
    /\ ann = <<>>
    /\ pc = "done"
    /\ run = 2
    /\ sent = 0
    /\ i = 0
    /\ current_chunk_start = 0
    /\ last_good_break = None
    /\ last_break_score = 0
    /\ resume = "return"
    /\ chunk = NoSpan
    /\ chunks = <<>>
    /\ how = ""
    /\ since = 0
    /\ span_time = NoSpan
    /\ last_end = 0
    /\ cues = <<>>
    /\ cues1 = <<>>

\* one iteration of the while loop, up to the call of process_file or of sleep
ServiceLoop ==
    /\ spc = "poll"
    /\ raised' = ""
    /\ IF input_dir # {}
       THEN /\ input_file' = oldest(input_dir)
            /\ spc' = "move"
       ELSE /\ spc' = "sleep"
            /\ UNCHANGED input_file
    /\ UNCHANGED <<segmentation, input_dir, st_mtime, fault, processing_dir, output_dir,
                   archive_dir, audio_file>>

\* time.sleep(2)
Sleep ==
    /\ spc = "sleep"
    /\ spc' = "poll"
    /\ UNCHANGED <<segmentation, input_dir, st_mtime, fault, processing_dir, output_dir,
                   archive_dir, input_file, audio_file, raised>>

\* shutil.move(input_file, proc_file)
MoveToProcessing ==
    /\ spc = "move"
    /\ input_dir' = input_dir \ {input_file}
    /\ processing_dir' = processing_dir \cup {proc_file}
    /\ spc' = "extract"
    /\ UNCHANGED <<segmentation, st_mtime, fault, output_dir, archive_dir, input_file,
                   audio_file, raised>>

\* extract_audio_from_mp4 and os.remove for an .mp4, else audio_file = proc_file
HandleMp4 ==
    /\ spc = "extract"
    /\ IF proc_file[2] = "mp4"
       THEN IF Raises("extract")
            THEN /\ Raise("extract")
                 /\ UNCHANGED <<processing_dir, audio_file>>
            ELSE /\ audio_file' = with_suffix(proc_file, "mp3")
                 /\ processing_dir' =
                        (processing_dir \cup {with_suffix(proc_file, "mp3")}) \ {proc_file}
                 /\ spc' = "transcribe"
                 /\ UNCHANGED raised
       ELSE /\ audio_file' = proc_file
            /\ spc' = "transcribe"
            /\ UNCHANGED <<processing_dir, raised>>
    /\ UNCHANGED <<segmentation, input_dir, st_mtime, fault, output_dir, archive_dir,
                   input_file>>

\* get_model and whisper_timestamped.transcribe
Transcribe ==
    /\ spc = "transcribe"
    /\ IF Raises("transcribe")
       THEN Raise("transcribe")
       ELSE /\ spc' = "json"
            /\ UNCHANGED raised
    /\ UNCHANGED <<segmentation, input_dir, st_mtime, fault, processing_dir, output_dir,
                   archive_dir, input_file, audio_file>>

\* the timestamped JSON is written next to the audio file
SaveJson ==
    /\ spc = "json"
    /\ IF Raises("json")
       THEN /\ Raise("json")
            /\ UNCHANGED processing_dir
       ELSE /\ processing_dir' = processing_dir \cup {json_path}
            /\ spc' = "segment"
            /\ UNCHANGED raised
    /\ UNCHANGED <<segmentation, input_dir, st_mtime, fault, output_dir, archive_dir,
                   input_file, audio_file>>

\* open(vtt_path, 'w') creates the file, then the segmentation tool runs
Segment ==
    /\ spc = "segment"
    /\ output_dir' = output_dir \cup {vtt_path}
    /\ IF Raises("segment")
       THEN Raise("segment")
       ELSE /\ spc' = "shift"
            /\ UNCHANGED raised
    /\ UNCHANGED <<segmentation, input_dir, st_mtime, fault, processing_dir, archive_dir,
                   input_file, audio_file>>

\* shift_vtt_times(vtt_path, adjusted_vtt_path)
ShiftVtt ==
    /\ spc = "shift"
    /\ IF Raises("shift")
       THEN /\ Raise("shift")
            /\ UNCHANGED archive_dir
       ELSE /\ archive_dir' = archive_dir \cup {adjusted_vtt_path}
            /\ spc' = "archive_audio"
            /\ UNCHANGED raised
    /\ UNCHANGED <<segmentation, input_dir, st_mtime, fault, processing_dir, output_dir,
                   input_file, audio_file>>

\* shutil.move(audio_file, archive_audio_path)
ArchiveAudio ==
    /\ spc = "archive_audio"
    /\ IF Raises("archive_audio")
       THEN /\ Raise("archive_audio")
            /\ UNCHANGED <<processing_dir, archive_dir>>
       ELSE /\ processing_dir' = processing_dir \ {audio_file}
            /\ archive_dir' = archive_dir \cup {audio_file}
            /\ spc' = "archive_json"
            /\ UNCHANGED raised
    /\ UNCHANGED <<segmentation, input_dir, st_mtime, fault, output_dir, input_file,
                   audio_file>>

\* shutil.move(json_path, archive_json_path)
ArchiveJson ==
    /\ spc = "archive_json"
    /\ IF Raises("archive_json")
       THEN /\ Raise("archive_json")
            /\ UNCHANGED <<processing_dir, archive_dir>>
       ELSE /\ processing_dir' = processing_dir \ {json_path}
            /\ archive_dir' = archive_dir \cup {json_path}
            /\ spc' = "copy_vtt"
            /\ UNCHANGED raised
    /\ UNCHANGED <<segmentation, input_dir, st_mtime, fault, output_dir, input_file,
                   audio_file>>

\* shutil.copy2(vtt_path, archive_vtt_path)
CopyVtt ==
    /\ spc = "copy_vtt"
    /\ IF Raises("copy_vtt")
       THEN /\ Raise("copy_vtt")
            /\ UNCHANGED archive_dir
       ELSE /\ archive_dir' = archive_dir \cup {vtt_path}
            /\ spc' = "copy_adjusted"
            /\ UNCHANGED raised
    /\ UNCHANGED <<segmentation, input_dir, st_mtime, fault, processing_dir, output_dir,
                   input_file, audio_file>>

\* shutil.copy2(adjusted_vtt_path, vtt_path), and process_file returns
CopyAdjusted ==
    /\ spc = "copy_adjusted"
    /\ IF Raises("copy_adjusted")
       THEN /\ Raise("copy_adjusted")
            /\ UNCHANGED output_dir
       ELSE /\ output_dir' = output_dir \cup {vtt_path}
            /\ spc' = "poll"
            /\ UNCHANGED raised
    /\ UNCHANGED <<segmentation, input_dir, st_mtime, fault, processing_dir, archive_dir,
                   input_file, audio_file>>

\* the except clause: the file goes back if proc_file exists; the move keeps
\* the file's modification time; process_file returns
Except ==
    /\ spc = "except"
    /\ IF proc_file \in processing_dir
       THEN /\ processing_dir' = processing_dir \ {proc_file}
            /\ input_dir' = input_dir \cup {input_file}
       ELSE UNCHANGED <<processing_dir, input_dir>>
    /\ spc' = "poll"
    /\ UNCHANGED <<segmentation, st_mtime, fault, output_dir, archive_dir, input_file,
                   audio_file, raised>>

ServiceNext ==
    \/ ServiceLoop
    \/ Sleep
    \/ MoveToProcessing
    \/ HandleMp4
    \/ Transcribe
    \/ SaveJson
    \/ Segment
    \/ ShiftVtt
    \/ ArchiveAudio
    \/ ArchiveJson
    \/ CopyVtt
    \/ CopyAdjusted
    \/ Except

\* the while True loop of service_loop always takes its next step
ServiceSpec == ServiceInit /\ [][ServiceNext]_vars /\ WF_vars(ServiceNext)

----------------------------------------------------------------------------
(* Properties.                                                             *)

\* the sentence whose divide_span call has just returned
Returned == pc \in {"call", "done"} /\ sent > 0

\* the annotation of the document has been done
Annotated == pc # "pauses" /\ (pc = "annotate" => run = 2)

\* the chunks cs follow one another from token `first` on, none of them empty
Contiguous(cs, first) ==
    \A k \in 1 .. Len(cs) :
        /\ cs[k][1] < cs[k][2]
        /\ cs[k][1] = IF k = 1 THEN first ELSE cs[k - 1][2]

\* C1: the chunks divide_span yields, in order, are non-empty token ranges that
\* follow one another without gap or overlap from the first token of the span,
\* and when the call has returned they end at the last token of the span.
C1_Partition ==
    /\ pc \in {"loop", "yield"} => Contiguous(chunks, SpanStart)
    /\ Returned =>
          /\ chunks # <<>>
          /\ Contiguous(chunks, SentStart(sent - 1))
          /\ chunks[Len(chunks)][2] = SentEnd(sent - 1)

\* a span longer than max_width has been divided in two chunks or more, one
\* of them of several tokens
C1_Witness ==
    /\ Returned
    /\ Len(chunks) >= 2
    /\ \E k \in 1 .. Len(chunks) : chunks[k][2] - chunks[k][1] >= 2

\* C2: every cue yielded has end > start, and every cue but the first starts
\* no earlier than the cue before it ends, over the whole document.
C2_GlobalMonotonicity ==
    \A k \in 1 .. Len(cues) :
        /\ cues[k].end > cues[k].start
        /\ k > 1 => cues[k].start >= cues[k - 1].end

\* two sentences; the second cue was moved behind the first and then given
\* the minimal duration
C2_Witness ==
    /\ pc = "done"
    /\ NumSents = 2
    /\ Len(cues) >= 2
    /\ cues[2].start = cues[1].end + SmallGap
    /\ cues[2].end = cues[2].start + SmallGap

\* C3: a span whose text is no longer than max_width is yielded as one chunk,
\* the whole span.
C3_ShortSpanIdentity ==
    (Returned /\ TextLen(SentStart(sent - 1), SentEnd(sent - 1)) <= max_width)
        => chunks = << <<SentStart(sent - 1), SentEnd(sent - 1)>> >>

\* a short span of several tokens, one of them marked as a break, in the
\* punctuation-only mode
C3_Witness ==
    /\ Returned
    /\ punctuation_only
    /\ TextLen(SentStart(sent - 1), SentEnd(sent - 1)) <= max_width
    /\ SentEnd(sent - 1) - SentStart(sent - 1) >= 2
    /\ \E t \in SentStart(sent - 1) .. SentEnd(sent - 1) - 1 : ann[t].can

\* f is the item next to e in the order of the offsets
NextByOffset(e, f) ==
    /\ f.off > e.off
    /\ ~\E g \in Range(timing) : e.off < g.off /\ g.off < f.off

\* the item e is followed, in the order of the offsets, by a gap of more than 0.5 s
PauseAfter(e) ==
    \E f \in Range(timing) : NextByOffset(e, f) /\ f.start - e.end > PauseGap

\* C4: the positions given to the fragmenter are the indices of the tokens at
\* the offsets of the items followed by a pause, and exactly those tokens are
\* marked as verbal pauses.
C4_PauseTokenIndex ==
    Annotated =>
        /\ Range(pauses) =
               {t \in Tokens : \E e \in Range(timing) : PauseAfter(e) /\ e.off = idx(t)}
        /\ \A t \in Tokens :
               ann[t] = Mark("verbal pause")
                   <=> \E e \in Range(timing) : PauseAfter(e) /\ e.off = idx(t)

\* C5: after the annotation every token whose index is in the pause positions
\* can break and has the reason verbal pause, whatever other rule marked it.
C5_PauseOverride ==
    Annotated => \A t \in Tokens : t \in Range(pauses) => ann[t] = Mark("verbal pause")

\* a token in the pause positions that a punctuation, conjunction or clause
\* match marks as well
C5_Witness ==
    /\ Annotated
    /\ \E t \in Tokens :
           /\ t \in Range(pauses)
           /\ \/ Tok(t).text \in PunctPattern
              \/ t + 1 < NumTokens /\ Tok(t + 1).pos \in ConjPos
              \/ t + 1 < NumTokens /\ Tok(t + 1).dep \in ClauseDep

\* C6: scan_for_pauses reports, once each, the offsets of the items that are
\* not last in the order of the offsets and whose successor in that order
\* starts more than 0.5 s after they end, whatever the insertion order.
C6_PauseThreshold ==
    pc # "pauses" =>
        /\ Range(pauses) = {e.off : e \in {x \in Range(timing) : PauseAfter(x)}}
        /\ Len(pauses) = Cardinality(Range(pauses))

\* a table not filled in the order of the offsets, with a gap of exactly
\* 0.5 s that is not reported and a longer one that is
C6_Witness ==
    /\ pc # "pauses"
    /\ \E j, k \in DOMAIN timing : j < k /\ timing[j].off > timing[k].off
    /\ \E e, f \in Range(timing) :
           NextByOffset(e, f) /\ f.start - e.end = PauseGap /\ e.off \notin Range(pauses)
    /\ pauses # <<>>

\* get_time_span has returned span_time for the non-empty chunk
Resolved == pc # "yield" /\ chunk # NoSpan /\ chunk[1] < chunk[2]

StartMissing == ~InTable(idx(WalkBack(chunk[1])))

EndMissing == ~InTable(idx(WalkBack(chunk[2] - 1)))

\* C7, as claimed: get_time_span returns nothing exactly when neither the
\* offset of start_token nor that of end_token is in the table, and the two
\* times otherwise.
C7_DropOnlyIfNeither ==
    Resolved =>
        /\ span_time = NoSpan <=> (StartMissing /\ EndMissing)
        /\ span_time # NoSpan =>
               span_time = <<Lookup(idx(WalkBack(chunk[1]))).start,
                             Lookup(idx(WalkBack(chunk[2] - 1))).end>>

\* C7, amended: get_time_span returns nothing exactly when the offset of
\* start_token or the offset of end_token is not in the table, and
\* (table[start_token.offset].start, table[end_token.offset].end) when both are.
C7_DropIfEither ==
    Resolved =>
        /\ span_time = NoSpan <=> (StartMissing \/ EndMissing)
        /\ span_time # NoSpan =>
               span_time = <<Lookup(idx(WalkBack(chunk[1]))).start,
                             Lookup(idx(WalkBack(chunk[2] - 1))).end>>

\* a chunk whose start_token has no entry while its end_token has one
C7_Witness == Resolved /\ StartMissing /\ ~EndMissing /\ span_time = NoSpan

\* C8: a chunk none of whose tokens has an entry in the table yields no cue
\* and leaves last_end as it is.
C8_UntimedChunkDropped ==
    [][(pc = "yield" /\ \A t \in chunk[1] .. chunk[2] - 1 : ~InTable(idx(t)))
          => (cues' = cues /\ last_end' = last_end)]_vars

\* C9: a resolved cue starts at last_end + 0.001 if its raw start is before
\* last_end, the end of the cue yielded before it (0 at first), and at its raw
\* start otherwise; it ends at its raw end, or 0.001 after its start if that
\* start is not before the raw end.
C9_RepairStep ==
    [][(pc = "yield" /\ span_time' # NoSpan) =>
          LET le == IF cues = <<>> THEN 0 ELSE cues[Len(cues)].end
              ys == IF span_time'[1] < le THEN le + 1 ELSE span_time'[1]
              ye == IF ys >= span_time'[2] THEN ys + 1 ELSE span_time'[2]
          IN  /\ cues' = Append(cues, [start |-> ys, end |-> ye, text |-> chunk])
              /\ (span_time'[1] >= le /\ span_time'[1] < span_time'[2])
                     => (ys = span_time'[1] /\ ye = span_time'[2])
              /\ (le = 2500 /\ span_time' = <<2400, 3000>>) => (ys = 2501 /\ ye = 3000)
       ]_vars

\* the raw cues (2.0, 2.5) and (2.4, 3.0): the second one yielded as (2.501, 3.0)
C9_Witness ==
    /\ Len(cues) = 2
    /\ cues[1].start = 2000 /\ cues[1].end = 2500
    /\ span_time = <<2400, 3000>>
    /\ cues[2].start = 2501 /\ cues[2].end = 3000

\* C10: the second run over the same document, table and arguments, on the
\* tokens the first run has annotated, yields the cues of the first run.
C10_Idempotence == (run = 2 /\ pc = "done") => cues = cues1

\* a second run over annotated tokens that has yielded several cues, one of
\* them repaired
C10_Witness ==
    /\ run = 2
    /\ pc = "done"
    /\ Len(cues) >= 2
    /\ \E t \in Tokens : ann[t].can
    /\ \E k \in 2 .. Len(cues) : cues[k].start = cues[k - 1].end + SmallGap

----------------------------------------------------------------------------
(* Properties of the chunker's choices.                                    *)

\* a chunk has just been yielded at the best candidate
AtCandidate == pc = "yield" /\ how = "candidate"

\* this step of the loop yields a chunk at the best candidate
EmitsCandidate == pc = "loop" /\ pc' = "yield" /\ how' = "candidate"

\* token t may be a candidate in the present mode
PassesFilter(t) ==
    ~punctuation_only \/ Tok(t).text \in StrongPunct \/ ann[t].reason = "punctuation"

\* C11, as claimed: in the punctuation-only mode only a token whose reason is
\* punctuation is recorded as the best candidate or ends a chunk yielded at a
\* candidate.
C11_PunctuationReasonOnly ==
    punctuation_only =>
        /\ (pc = "loop" /\ last_good_break # None)
               => ann[SpanStart + last_good_break].reason = "punctuation"
        /\ AtCandidate => ann[chunk[2] - 1].reason = "punctuation"

\* C11, amended: in the punctuation-only mode only a token whose literal is
\* one of , . : ; or whose reason is punctuation is recorded as the best
\* candidate or ends a chunk yielded at a candidate.
C11_PunctuationLiteralOrReason ==
    punctuation_only =>
        /\ (pc = "loop" /\ last_good_break # None)
               => \/ Tok(SpanStart + last_good_break).text \in StrongPunct
                  \/ ann[SpanStart + last_good_break].reason = "punctuation"
        /\ AtCandidate
               => \/ Tok(chunk[2] - 1).text \in StrongPunct
                  \/ ann[chunk[2] - 1].reason = "punctuation"

\* in the punctuation-only mode a chunk ends at a comma whose reason was
\* overwritten, after a marked word was passed over
C11_Witness ==
    /\ punctuation_only
    /\ AtCandidate
    /\ Tok(chunk[2] - 1).text = ","
    /\ ann[chunk[2] - 1].reason # "punctuation"
    /\ \E t \in chunk[1] .. chunk[2] - 1 : ann[t].can /\ ~PassesFilter(t)

\* C12: after every token scanned, a best candidate being recorded and the
\* length above max_width, the chunk ending at the candidate is yielded at
\* that token; else, the length above 1.5 * max_width, the chunk ending before
\* the token (or the token alone) is yielded at that token.
C12_ForcedBreakEveryToken ==
    [][(pc = "loop" /\ i < SpanLen /\ i' = i + 1) =>
          LET cur == current_length
              first == SpanStart + current_chunk_start
          IN  /\ (cur > max_width /\ last_good_break # None)
                     => /\ pc' = "yield"
                        /\ chunk' = <<first, SpanStart + last_good_break + 1>>
              /\ (~(cur > max_width /\ last_good_break # None) /\ 2 * cur > 3 * max_width)
                     => /\ pc' = "yield"
                        /\ chunk' = IF i > current_chunk_start
                                       THEN <<first, SpanStart + i>>
                                       ELSE <<first, first + 1>>
       ]_vars

\* the score of the claim for token t at length cur, times max_width
ClaimScore(t, cur) ==
    LET bonus == IF Tok(t).text \in {",", ".", ":", ";"} THEN 5
                 ELSE IF ann[t].reason = "punctuation" THEN 3
                 ELSE IF ann[t].reason \in {"conjunction", "clause"} /\ ~punctuation_only
                      THEN 2
                 ELSE 0
        away == IF 2 * cur >= width THEN 2 * cur - width ELSE width - 2 * cur
    IN  (10 + bonus) * width + 2 * (width - away)

\* token t can end a chunk that starts at token a
Eligible(a, t) ==
    /\ ann[t].can
    /\ PassesFilter(t)
    /\ width \div 3 <= TextLen(a, t + 1)
    /\ TextLen(a, t + 1) <= width

\* C13: a chunk yielded at a candidate is no shorter than max_width // 3 and no
\* longer than max_width, and ends at the eligible token, among those scanned
\* since the last yield, of the highest score, the earliest of them if several
\* have that score.
C13_BestCandidate ==
    [][EmitsCandidate =>
          LET a == SpanStart + current_chunk_start
              b == chunk'[2] - 1
              elig == {t \in SpanStart + since .. SpanStart + i : Eligible(a, t)}
              sc(t) == ClaimScore(t, TextLen(a, t + 1))
          IN  /\ chunk'[1] = a
              /\ width \div 3 <= TextLen(a, b + 1)
              /\ TextLen(a, b + 1) <= width
              /\ b \in elig
              /\ \A t \in elig : sc(t) < sc(b) \/ (sc(t) = sc(b) /\ t >= b)
       ]_vars

\* a chunk yielded at the earlier of two candidates of the same score
C13_Witness ==
    /\ AtCandidate
    /\ \E t \in chunk[2] .. SpanStart + i - 1 :
           /\ Eligible(chunk[1], t)
           /\ ClaimScore(t, TextLen(chunk[1], t + 1))
                  = ClaimScore(chunk[2] - 1, TextLen(chunk[1], chunk[2]))

\* C14: when the chunk ending at the best candidate b is yielded at token i,
\* the tokens b + 1 .. i are evaluated as candidates of the next chunk, their
\* length measured from b + 1: one of them that is eligible is recorded.
C14_ResumeAfterBreak ==
    [][EmitsCandidate =>
          LET b == chunk'[2] - 1
              elig == {t \in b + 1 .. SpanStart + i : Eligible(b + 1, t)}
          IN  elig # {} =>
                  /\ last_good_break' # None
                  /\ SpanStart + last_good_break' \in elig
       ]_vars

\* C16: every chunk of two tokens or more that divide_span yields has a text
\* no longer than 1.5 * max_width.
C16_WidthBound ==
    \A k \in 1 .. Len(chunks) :
        chunks[k][2] - chunks[k][1] >= 2
            => 2 * TextLen(chunks[k][1], chunks[k][2]) <= 3 * max_width

\* C17: with an entry for the offset of token 0 in the table, both walks of
\* get_time_span for a non-empty chunk end on a token that has an entry, the
\* start token not after the end token, a time span is returned and one cue
\* is yielded for the chunk.
C17_NoChunkDropped ==
    [][(InTable(idx(0)) /\ pc = "yield" /\ chunk[1] < chunk[2]) =>
          /\ InTable(idx(WalkBack(chunk[1])))
          /\ InTable(idx(WalkBack(chunk[2] - 1)))
          /\ WalkBack(chunk[1]) <= WalkBack(chunk[2] - 1)
          /\ span_time' # NoSpan
          /\ Len(cues') = Len(cues) + 1
          /\ cues'[Len(cues')].text = chunk
       ]_vars

\* token 0 timed; a chunk past it, none of whose tokens is timed, has a cue
C17_Witness ==
    /\ InTable(idx(0))
    /\ Resolved
    /\ chunk[1] > 0
    /\ \A t \in chunk[1] .. chunk[2] - 1 : ~InTable(idx(t))
    /\ cues # <<>>
    /\ cues[Len(cues)].text = chunk

----------------------------------------------------------------------------
(* Properties of the service.                                              *)

\* process_file has returned from a call in which a step after the move raised
ReturnedAfterFailure == spc = "poll" /\ raised # ""

\* the files of the job in the processing directory
Stranded == {n \in processing_dir : n[1] = input_file[1]}

\* C15: when process_file returns after a step later than the move into the
\* processing directory has raised, the file is back in the input directory
\* and no file of the job is left in the processing directory.
C15_FailureRecovery ==
    ReturnedAfterFailure => input_file \in input_dir /\ Stranded = {}

\* the loop has just chosen f as input_files[0]
Selected(f) == spc = "move" /\ input_file = f

\* C18: every file present in the input directory is eventually selected for
\* processing by service_loop.
C18_EveryFileSelected ==
    \A f \in Names : (f \in input_dir) ~> Selected(f)

====
